---- MODULE Spec2Model ----
(***************************************************************************)
(* Document Extractor API (src/app.py): the currency formatter, the MICR   *)
(* parser, the three extraction normalizers and the three upload handlers. *)
(*                                                                         *)
(* A text is a sequence of symbols.  A symbol is one character, except     *)
(* that a JSON key name, the literal null and the fence tag are kept as    *)
(* one symbol each: no operation of the program cuts inside them.          *)
(* Some characters are written by name: Rupee is U+20B9, OnUs is U+2448,   *)
(* Transit is U+2446 and Backtick is U+0060.                               *)
(***************************************************************************)
EXTENDS Naturals, Sequences, FiniteSets

VARIABLES
    fnArg,      \* pure functions: the argument string
    fnOut,      \* pure functions: the returned string
    fnDone,     \* pure functions: TRUE once the function has returned
    nDoc,       \* normalizers: the document type of the normalizer under study
    nIn,        \* normalizers: the response texts given to it, one per call
    nOut,       \* normalizers: what each call returned, and when
    clock,      \* the wall clock, in seconds
    files,      \* the paths that exist in the upload folder
    pc,         \* per request: where its handler stands
    req,        \* per request: the route, and the file part of the upload
    filepath,   \* per request: the handler's filepath, <<>> before it is set
    data,       \* per request: what the normalizer returned
    resp,       \* per request: the response envelopes sent
    trace,      \* per request: what its handler has done so far
    handled     \* the number of requests received so far

fnVars == <<fnArg, fnOut, fnDone>>
normVars == <<nDoc, nIn, nOut>>
hVars == <<files, pc, req, filepath, data, resp, trace, handled>>

vars == <<fnArg, fnOut, fnDone, nDoc, nIn, nOut, clock,
          files, pc, req, filepath, data, resp, trace, handled>>

(***************************************************************************)
(* Bounds of the model.                                                    *)
(***************************************************************************)
MaxAmountLen == 9     \* longest amount string given to format_indian_currency
MaxMicrPieces == 4    \* most pieces a generated MICR line is built from
MaxClock == 1         \* the last second the clock reaches
MaxRequests == 2      \* the number of requests received in a run

(***************************************************************************)
(* Characters.                                                             *)
(***************************************************************************)
Rupee == "Rs"
OnUs == "<OnUs>"
Transit == "<Transit>"

DigitChars == {"0", "1", "2", "3", "4", "5", "6", "7", "8", "9"}
SpaceChars == {" ", "\n"}
LetterChars == {"a", "b", "_"}
Glyphs == {OnUs, Transit}

IsDigit(c) == c \in DigitChars
IsSpace(c) == c \in SpaceChars
IsGlyph(c) == c \in Glyphs
\* \w of the re module: letters, digits and the underscore
IsWord(c) == c \in DigitChars \cup LetterChars

Range(s) == {s[i] : i \in DOMAIN s}

RECURSIVE Filter(_, _)
\* re.sub(r'[^\d]', '', s) with keep = the digits: the symbols of s in keep
Filter(s, keep) ==
    IF s = <<>> THEN <<>>
    ELSE IF Head(s) \in keep THEN <<Head(s)>> \o Filter(Tail(s), keep)
         ELSE Filter(Tail(s), keep)

RECURSIVE PyIntStr(_)
\* str(int(digits)) for a non-empty digit string: the decimal numeral of its
\* value, which is the string without its leading zeros ("0" when all zero)
PyIntStr(digits) ==
    IF Len(digits) <= 1 THEN digits
    ELSE IF Head(digits) = "0" THEN PyIntStr(Tail(digits))
         ELSE digits

(***************************************************************************)
(* Python strings and values.  A JSON value is [t, v]: t is "str", "num",  *)
(* "null" or "obj"; v is the text of a string, the digits of a number, or  *)
(* the <<key, value>> pairs of an object in the order they were read.      *)
(***************************************************************************)
Str(text) == [t |-> "str", v |-> text]
Num(digits) == [t |-> "num", v |-> digits]
Null == [t |-> "null", v |-> <<>>]
Obj(pairs) == [t |-> "obj", v |-> pairs]

\* bool(x) of a str, an int or None
Truthy(val) ==
    CASE val.t = "str" -> val.v # <<>>
      [] val.t = "num" -> \E i \in DOMAIN val.v : val.v[i] # "0"
      [] val.t = "null" -> FALSE
      [] OTHER -> val.v # <<>>

\* str(x) of a str, an int or None
PyStr(val) ==
    CASE val.t = "null" -> <<"N", "o", "n", "e">>
      [] OTHER -> val.v

RECURSIVE LStrip(_)
LStrip(s) == IF s # <<>> /\ IsSpace(Head(s)) THEN LStrip(Tail(s)) ELSE s

RECURSIVE RStrip(_)
RStrip(s) ==
    IF s # <<>> /\ IsSpace(s[Len(s)]) THEN RStrip(SubSeq(s, 1, Len(s) - 1)) ELSE s

\* str.strip()
PyStrip(s) == RStrip(LStrip(s))

\* str.startswith(prefix)
StartsWith(s, prefix) ==
    Len(s) >= Len(prefix) /\ SubSeq(s, 1, Len(prefix)) = prefix

RECURSIVE FindSub(_, _, _)
\* str.find(sep, i): the first position at or after i where sep occurs, else 0
FindSub(s, sep, i) ==
    IF i + Len(sep) - 1 > Len(s) THEN 0
    ELSE IF SubSeq(s, i, i + Len(sep) - 1) = sep THEN i
         ELSE FindSub(s, sep, i + 1)

RECURSIVE Split(_, _)
\* str.split(sep): the parts between the occurrences of sep, left to right
Split(s, sep) ==
    LET k == FindSub(s, sep, 1) IN
    IF k = 0 THEN <<s>>
    ELSE <<SubSeq(s, 1, k - 1)>> \o Split(SubSeq(s, k + Len(sep), Len(s)), sep)

RECURSIVE Join(_, _)
\* sep.join(parts)
Join(parts, sep) ==
    IF parts = <<>> THEN <<>>
    ELSE IF Len(parts) = 1 THEN parts[1]
         ELSE parts[1] \o sep \o Join(Tail(parts), sep)

RECURSIVE Lookup(_, _, _, _)
Lookup(pairs, key, i, default) ==
    IF i = 0 THEN default
    ELSE IF pairs[i][1] = <<key>> THEN pairs[i][2]
         ELSE Lookup(pairs, key, i - 1, default)

\* extracted.get(key, ''): a key read twice keeps its last value
Get(pairs, key) == Lookup(pairs, key, Len(pairs), Str(<<>>))

\* extracted.get(key): None when the key is absent
GetOrNone(pairs, key) == Lookup(pairs, key, Len(pairs), Null)

Has(pairs, key) == \E i \in DOMAIN pairs : pairs[i][1] = <<key>>

(***************************************************************************)
(* format_indian_currency                                                  *)
(***************************************************************************)
RECURSIVE WesternLoop(_, _, _)
WesternLoop(remaining, i, formatted) ==
    IF i < 0 THEN formatted
    ELSE LET f1 == <<remaining[i + 1]>> \o formatted
             f2 == IF i > 0 /\ (Len(remaining) - i) % 3 = 0
                   THEN <<",">> \o f1 ELSE f1
         IN WesternLoop(remaining, i - 1, f2)

RECURSIVE GroupLoop(_, _, _)
\* for i in range(len(remaining) - 1, -1, -1): i is the 0-based index
GroupLoop(remaining, i, formatted) ==
    IF i < 0 THEN formatted
    ELSE LET f1 == <<remaining[i + 1]>> \o formatted
             f2 == IF i > 0 /\ (Len(remaining) - i) % 2 = 0
                   THEN <<",">> \o f1 ELSE f1
         IN GroupLoop(remaining, i - 1, f2)

\* format_indian_currency(amount_str) for a str, an int or None
format_indian_currency(amount_str) ==
    IF ~Truthy(amount_str) THEN <<>>
    ELSE LET digits == Filter(PyStr(amount_str), DigitChars) IN
         IF digits = <<>> THEN <<>>
         ELSE LET s == PyIntStr(digits)
                  n == Len(s)
                  grouped ==
                      IF n > 3
                      THEN GroupLoop(SubSeq(s, 1, n - 3), n - 4, <<>>)
                               \o <<",">> \o SubSeq(s, n - 2, n)
                      ELSE s
              IN <<Rupee, " ">> \o grouped \o <<"/", "-">>

(***************************************************************************)
(* extract_cheque_number_from_micr                                         *)
(***************************************************************************)
RECURSIVE SkipWhile(_, _, _)
\* the first position at or after i whose symbol is not in set (Len(s)+1 at the end)
SkipWhile(s, i, set) ==
    IF i <= Len(s) /\ s[i] \in set THEN SkipWhile(s, i + 1, set) ELSE i

\* one attempt of [glyph]\s*(\d+)\s*[glyph] at position i: the matched group and
\* the position after the match.  \d+ and \s* are greedy and what follows each
\* excludes what it repeats, so the longest runs are the only match.
BoundedAt(s, i) ==
    IF i > Len(s) \/ ~IsGlyph(s[i]) THEN [ok |-> FALSE, grp |-> <<>>, next |-> i]
    ELSE LET d1 == SkipWhile(s, i + 1, SpaceChars)
             d2 == SkipWhile(s, d1, DigitChars)
             g  == SkipWhile(s, d2, SpaceChars)
         IN IF d2 > d1 /\ g <= Len(s) /\ IsGlyph(s[g])
            THEN [ok |-> TRUE, grp |-> SubSeq(s, d1, d2 - 1), next |-> g + 1]
            ELSE [ok |-> FALSE, grp |-> <<>>, next |-> i]

RECURSIVE FindBounded(_, _)
\* re.findall of the bounded pattern from position i: the groups of the
\* non-overlapping matches, scanning left to right
FindBounded(s, i) ==
    IF i > Len(s) THEN <<>>
    ELSE LET m == BoundedAt(s, i) IN
         IF m.ok THEN <<m.grp>> \o FindBounded(s, m.next)
         ELSE FindBounded(s, i + 1)

\* \b\d{6}\b at position i
SixAt(s, i) ==
    /\ i + 5 <= Len(s)
    /\ \A k \in i..(i + 5) : IsDigit(s[k])
    /\ (i = 1 \/ ~IsWord(s[i - 1]))
    /\ (i + 5 = Len(s) \/ ~IsWord(s[i + 6]))

RECURSIVE FindSix(_, _)
\* re.findall(r'\b\d{6}\b', s) from position i
FindSix(s, i) ==
    IF i > Len(s) THEN <<>>
    ELSE IF SixAt(s, i) THEN <<SubSeq(s, i, i + 5)>> \o FindSix(s, i + 6)
         ELSE FindSix(s, i + 1)

LastPartMicr(micr_code) ==
    IF ~Truthy(micr_code) THEN <<>>
    ELSE LET parts == FindBounded(micr_code.v, 1) IN
         IF Len(parts) >= 1 THEN parts[Len(parts)]
         ELSE LET fallback == FindSix(micr_code.v, 1) IN
              IF fallback # <<>> THEN fallback[1] ELSE <<>>

\* re.findall raises TypeError for a truthy argument that is no string
MicrRaises(micr_code) == Truthy(micr_code) /\ micr_code.t # "str"

\* extract_cheque_number_from_micr(micr_code) for a str, a zero or None
extract_cheque_number_from_micr(micr_code) ==
    IF ~Truthy(micr_code) THEN <<>>
    ELSE LET parts == FindBounded(micr_code.v, 1) IN
         IF Len(parts) >= 1 THEN parts[1]
         ELSE LET fallback == FindSix(micr_code.v, 1) IN
              IF fallback # <<>> THEN fallback[1] ELSE <<>>

(***************************************************************************)
(* json.loads, for texts made of objects whose values are strings, numbers *)
(* and null, and of such values alone.  Strings have no escapes.           *)
(***************************************************************************)
Quote == "\""
NoParse == [ok |-> FALSE, val |-> Null, next |-> 0]

\* a string, a number or null at position i
ParseScalar(s, i) ==
    IF i > Len(s) THEN NoParse
    ELSE IF s[i] = Quote
    THEN LET j == FindSub(s, <<Quote>>, i + 1) IN
         IF j = 0 \/ "\n" \in Range(SubSeq(s, i + 1, j - 1)) THEN NoParse
         ELSE [ok |-> TRUE, val |-> Str(SubSeq(s, i + 1, j - 1)), next |-> j + 1]
    ELSE IF s[i] = "null" THEN [ok |-> TRUE, val |-> Null, next |-> i + 1]
    ELSE IF s[i] = "0" THEN [ok |-> TRUE, val |-> Num(<<"0">>), next |-> i + 1]
    ELSE IF IsDigit(s[i])
    THEN LET j == SkipWhile(s, i, DigitChars) IN
         [ok |-> TRUE, val |-> Num(SubSeq(s, i, j - 1)), next |-> j]
    ELSE NoParse

RECURSIVE ParsePairs(_, _, _)

\* after a value: the closing brace ends the object, a comma starts a pair
PairEnd(s, e, got) ==
    IF e > Len(s) THEN NoParse
    ELSE IF s[e] = "}" THEN [ok |-> TRUE, val |-> Obj(got), next |-> e + 1]
    ELSE IF s[e] = "," THEN ParsePairs(s, SkipWhile(s, e + 1, SpaceChars), got)
    ELSE NoParse

PairAfterValue(s, key, val, acc) ==
    IF ~val.ok THEN NoParse
    ELSE PairEnd(s, SkipWhile(s, val.next, SpaceChars),
                 Append(acc, <<key.val.v, val.val>>))

PairAtColon(s, key, c, acc) ==
    IF c > Len(s) \/ s[c] # ":" THEN NoParse
    ELSE PairAfterValue(s, key, ParseScalar(s, SkipWhile(s, c + 1, SpaceChars)), acc)

PairAfterKey(s, key, acc) ==
    IF ~key.ok \/ key.val.t # "str" THEN NoParse
    ELSE PairAtColon(s, key, SkipWhile(s, key.next, SpaceChars), acc)

\* the pairs of an object from position i, where a key is expected
ParsePairs(s, i, acc) == PairAfterKey(s, ParseScalar(s, i), acc)

ObjectBody(s, k) ==
    IF k <= Len(s) /\ s[k] = "}"
    THEN [ok |-> TRUE, val |-> Obj(<<>>), next |-> k + 1]
    ELSE ParsePairs(s, k, <<>>)

ParseValue(s, i) ==
    IF i <= Len(s) /\ s[i] = "{"
    THEN ObjectBody(s, SkipWhile(s, i + 1, SpaceChars))
    ELSE ParseScalar(s, i)

\* nothing but whitespace may follow the value
WholeText(s, r) ==
    IF r.ok /\ SkipWhile(s, r.next, SpaceChars) = Len(s) + 1 THEN r ELSE NoParse

\* json.loads(s): ok is FALSE where json.loads raises
ParseJSON(s) == WholeText(s, ParseValue(s, SkipWhile(s, 1, SpaceChars)))

(***************************************************************************)
(* Unwrapping the response text.                                           *)
(***************************************************************************)
Backtick == "<backtick>"
Fence == <<Backtick, Backtick, Backtick>>
FenceJson == Fence \o <<"j", "s", "o", "n">>

FenceTaggedOnly(json_text) ==
    IF StartsWith(json_text, FenceJson)
    THEN PyStrip(Split(Split(json_text, FenceJson)[2], Fence)[1])
    ELSE json_text

\* the two fence branches
StripFence(json_text) ==
    IF StartsWith(json_text, FenceJson)
    THEN PyStrip(Split(Split(json_text, FenceJson)[2], Fence)[1])
    ELSE IF StartsWith(json_text, Fence)
    THEN PyStrip(Split(Split(json_text, Fence)[2], Fence)[1])
    ELSE json_text

\* json_text = response.text.strip(), then the fence branches
Unwrap(text) == StripFence(PyStrip(text))

(***************************************************************************)
(* The extraction normalizers.  A normalizer ends in one of three ways: it *)
(* returns a record, it returns None, or an exception leaves it.           *)
(***************************************************************************)
NoRecord == [f \in {} |-> Null]
Raised == [kind |-> "raised", rec |-> NoRecord]
NoneResult == [kind |-> "none", rec |-> NoRecord]
Record(rec) == [kind |-> "record", rec |-> rec]

DigitOf(n) == <<"0", "1", "2", "3", "4", "5", "6", "7", "8", "9">>[n + 1]

RECURSIVE NatStr(_)
NatStr(n) == IF n < 10 THEN <<DigitOf(n)>> ELSE NatStr(n \div 10) \o <<DigitOf(n % 10)>>

\* datetime.now().isoformat() at second now
IsoFormat(now) == <<"T">> \o NatStr(now)

ChequeFields ==
    { "document_type", "bank_name", "account_holder_name", "payee_name",
      "amount_words", "amount_numbers", "amount_formatted", "date",
      "account_number", "ifsc_code", "micr_code", "cheque_number",
      "prefix_number", "branch_name", "branch_code", "extracted_at" }

PassbookFields ==
    { "document_type", "cif_number", "account_number", "customer_name",
      "father_husband_name", "address", "phone", "email", "date_of_birth",
      "minor_status", "nominee_reg_number", "branch_name", "branch_code",
      "ifsc_code", "micr_code", "account_type", "date_of_issue",
      "date_of_activation", "extracted_at" }

GstFields ==
    { "document_type", "registration_number", "legal_name", "trade_name",
      "constitution", "floor_number", "building_number", "premises_name",
      "road_street", "locality", "full_address", "city", "district", "state",
      "pin_code", "validity_from", "validity_to", "registration_type",
      "approving_officer", "designation", "office", "issue_date",
      "extracted_at" }

ChequeTrustingUpstream(extracted, now) ==
    IF MicrRaises(Get(extracted, "micr_code")) THEN NoneResult
    ELSE Record([f \in ChequeFields |->
             CASE f = "document_type" -> Str(<<"cheque">>)
               [] f = "amount_formatted" ->
                      IF Has(extracted, f) THEN Get(extracted, f)
                      ELSE Str(format_indian_currency(Get(extracted, "amount_numbers")))
               [] f = "cheque_number" ->
                      Str(extract_cheque_number_from_micr(Get(extracted, "micr_code")))
               [] f = "extracted_at" -> Str(IsoFormat(now))
               [] OTHER -> Get(extracted, f)])

\* micr_code, cheque_number, amount_num, formatted_amount and result; re.findall
\* raises on a micr_code that is no string
ChequeRecord(extracted, now) ==
    IF MicrRaises(Get(extracted, "micr_code")) THEN NoneResult
    ELSE Record([f \in ChequeFields |->
             CASE f = "document_type" -> Str(<<"cheque">>)
               [] f = "amount_formatted" ->
                      IF Truthy(Get(extracted, "amount_numbers"))
                      THEN Str(format_indian_currency(Get(extracted, "amount_numbers")))
                      ELSE Str(<<>>)
               [] f = "cheque_number" ->
                      Str(extract_cheque_number_from_micr(Get(extracted, "micr_code")))
               [] f = "extracted_at" -> Str(IsoFormat(now))
               [] OTHER -> Get(extracted, f)])

\* result of extract_passbook_with_gemini
PassbookRecord(extracted, now) ==
    Record([f \in PassbookFields |->
        CASE f = "document_type" -> Str(<<"passbook">>)
          [] f = "extracted_at" -> Str(IsoFormat(now))
          [] OTHER -> Get(extracted, f)])

FloorLabel == <<"F", "l", "o", "o", "r", ":", " ">>
BuildingLabel == <<"B", "u", "i", "l", "d", "i", "n", "g", ":", " ">>

AddressPartsUnlabelled(extracted) ==
    (IF Truthy(GetOrNone(extracted, "floor_number"))
     THEN <<Str(PyStr(Get(extracted, "floor_number")))>> ELSE <<>>)
    \o (IF Truthy(GetOrNone(extracted, "building_number"))
        THEN <<Str(PyStr(Get(extracted, "building_number")))>> ELSE <<>>)
    \o (IF Truthy(GetOrNone(extracted, "premises_name"))
        THEN <<Get(extracted, "premises_name")>> ELSE <<>>)
    \o (IF Truthy(GetOrNone(extracted, "road_street"))
        THEN <<Get(extracted, "road_street")>> ELSE <<>>)
    \o (IF Truthy(GetOrNone(extracted, "locality"))
        THEN <<Get(extracted, "locality")>> ELSE <<>>)

\* address_parts: the five appends, in the order of the source
AddressParts(extracted) ==
    (IF Truthy(GetOrNone(extracted, "floor_number"))
     THEN <<Str(FloorLabel \o PyStr(Get(extracted, "floor_number")))>> ELSE <<>>)
    \o (IF Truthy(GetOrNone(extracted, "building_number"))
        THEN <<Str(BuildingLabel \o PyStr(Get(extracted, "building_number")))>>
        ELSE <<>>)
    \o (IF Truthy(GetOrNone(extracted, "premises_name"))
        THEN <<Get(extracted, "premises_name")>> ELSE <<>>)
    \o (IF Truthy(GetOrNone(extracted, "road_street"))
        THEN <<Get(extracted, "road_street")>> ELSE <<>>)
    \o (IF Truthy(GetOrNone(extracted, "locality"))
        THEN <<Get(extracted, "locality")>> ELSE <<>>)

\* full_address and result; ', '.join raises on a part that is no string
GstJoined(extracted, address_parts, now) ==
    IF \E i \in DOMAIN address_parts : address_parts[i].t # "str"
    THEN NoneResult
    ELSE Record([f \in GstFields |->
             CASE f = "document_type" -> Str(<<"gst_certificate">>)
               [] f = "full_address" ->
                      Str(Join([i \in DOMAIN address_parts |-> address_parts[i].v],
                               <<",", " ">>))
               [] f = "extracted_at" -> Str(IsoFormat(now))
               [] OTHER -> Get(extracted, f)])

\* filter(None, address_parts)
GstRecord(extracted, now) ==
    GstJoined(extracted, SelectSeq(AddressParts(extracted), Truthy), now)

\* extracted = json.loads(json_text): json.loads raises, or what it returns is
\* no dict and has no get
Decoded(parsed) == parsed.ok /\ parsed.val.t = "obj"

ChequeOf(parsed, now) ==
    IF Decoded(parsed) THEN ChequeRecord(parsed.val.v, now) ELSE NoneResult
PassbookOf(parsed, now) ==
    IF Decoded(parsed) THEN PassbookRecord(parsed.val.v, now) ELSE NoneResult
GstOf(parsed, now) ==
    IF Decoded(parsed) THEN GstRecord(parsed.val.v, now) ELSE NoneResult

\* the try block of each normalizer once response.text is read
NormalizeCheque(text, now) == ChequeOf(ParseJSON(Unwrap(text)), now)
NormalizePassbook(text, now) == PassbookOf(ParseJSON(Unwrap(text)), now)
NormalizeGst(text, now) == GstOf(ParseJSON(Unwrap(text)), now)

\* extract_cheque_with_gemini: Image.open stands before the try block, the call
\* of the service and the reading of response.text stand inside it
extract_cheque_with_gemini(openRaises, ai, now) ==
    IF openRaises THEN Raised
    ELSE IF ai.raises THEN NoneResult
    ELSE NormalizeCheque(ai.text, now)

extract_passbook_with_gemini(openRaises, ai, now) ==
    IF openRaises THEN Raised
    ELSE IF ai.raises THEN NoneResult
    ELSE NormalizePassbook(ai.text, now)

extract_gst_with_gemini(openRaises, ai, now) ==
    IF openRaises THEN Raised
    ELSE IF ai.raises THEN NoneResult
    ELSE NormalizeGst(ai.text, now)

DocTypes == {"cheque", "gst", "passbook"}

\* the normalizer each route calls
Normalizer(doc, openRaises, ai, now) ==
    CASE doc = "cheque" -> extract_cheque_with_gemini(openRaises, ai, now)
      [] doc = "gst" -> extract_gst_with_gemini(openRaises, ai, now)
      [] doc = "passbook" -> extract_passbook_with_gemini(openRaises, ai, now)

FieldsOf(doc) ==
    CASE doc = "cheque" -> ChequeFields
      [] doc = "gst" -> GstFields
      [] doc = "passbook" -> PassbookFields

(***************************************************************************)
(* What the extraction service returns: response.text.                     *)
(***************************************************************************)
Absent == [t |-> "absent", v |-> <<>>]

\* the JSON text of a value
DumpValue(val) ==
    CASE val.t = "str" -> <<Quote>> \o val.v \o <<Quote>>
      [] val.t = "num" -> val.v
      [] val.t = "null" -> <<"null">>

RECURSIVE DumpPairs(_)
DumpPairs(pairs) ==
    IF pairs = <<>> THEN <<>>
    ELSE <<Quote>> \o pairs[1][1] \o <<Quote, ":", " ">> \o DumpValue(pairs[1][2])
         \o (IF Len(pairs) > 1 THEN <<",", " ">> ELSE <<>>) \o DumpPairs(Tail(pairs))

\* the JSON text of an object
Dump(pairs) == <<"{">> \o DumpPairs(pairs) \o <<"}">>

RECURSIVE MkPairs(_, _)
\* the pairs of the keys the service supplies: choice maps a key to its value or Absent
MkPairs(keys, choice) ==
    IF keys = <<>> THEN <<>>
    ELSE (IF choice[keys[1]].t = "absent" THEN <<>>
          ELSE << <<(<<keys[1]>>), choice[keys[1]]>> >>)
         \o MkPairs(Tail(keys), choice)

Service(text) == [raises |-> FALSE, text |-> text]
ServiceError == [raises |-> TRUE, text |-> <<>>]

(***************************************************************************)
(* Inputs of the pure functions.                                           *)
(***************************************************************************)
RECURSIVE StringsOfLen(_, _)
\* the strings over alphabet of length n
StringsOfLen(alphabet, n) ==
    IF n = 0 THEN {<<>>}
    ELSE {<<c>> \o s : c \in alphabet, s \in StringsOfLen(alphabet, n - 1)}

\* the strings over alphabet of length at most n
Strings(alphabet, n) == UNION {StringsOfLen(alphabet, k) : k \in 0..n}

AmountAlphabet == {"0", "5", ","}
AmountExamples ==
    { <<"5", "0", "0", "0", "0", "0", "0">>,
      <<"1", "0", "0">>,
      <<"a", "b", "c">>,
      <<>>,
      <<"1", "2", "3", "4", "5", "6", "7", "8", "9", "0", "1">> }
AmountInputs == Strings(AmountAlphabet, MaxAmountLen) \cup AmountExamples

MicrPieces ==
    { <<OnUs>>, <<Transit>>, <<" ">>, <<"a">>, <<"-">>,
      <<"3", "4">>, <<"7">>, <<"1", "2", "3", "4", "5", "6">> }

RECURSIVE ConcatsOf(_, _)
\* the concatenations of n pieces
ConcatsOf(pieces, n) ==
    IF n = 0 THEN {<<>>}
    ELSE {p \o s : p \in pieces, s \in ConcatsOf(pieces, n - 1)}

\* the concatenations of at most n pieces
Concats(pieces, n) == UNION {ConcatsOf(pieces, k) : k \in 0..n}

MicrExample ==
    <<OnUs, "3", "4", "3", "2", "4", "2", OnUs, " ",
      "5", "2", "0", "0", "0", "2", "2", "0", "6", Transit, " ",
      "0", "0", "0", "8", "6", "0", OnUs, " ", "2", "4">>
MicrExamples ==
    { MicrExample,
      <<"a", "b", " ", "1", "2", "3", "4", "5", "6", " ", "b">>,
      <<"a", "b", " ", "-">> }
MicrInputs == Concats(MicrPieces, MaxMicrPieces) \cup MicrExamples

(***************************************************************************)
(* The currency formatter and the MICR parser, each applied to an input.   *)
(***************************************************************************)
Reqs == {"r1", "r2"}

Unset == [kind |-> "unset", rec |-> NoRecord]
NoRequest == [doc |-> "none", hasFile |-> FALSE, fname |-> <<>>]
NoTrace == [wrote |-> {}, normCalls |-> 0, raisedAt |-> "nowhere"]

\* the upload folder is empty and no request is being handled
HandlerIdle ==
    /\ files = {}
    /\ pc = [r \in Reqs |-> "idle"]
    /\ req = [r \in Reqs |-> NoRequest]
    /\ filepath = [r \in Reqs |-> <<>>]
    /\ data = [r \in Reqs |-> Unset]
    /\ resp = [r \in Reqs |-> <<>>]
    /\ trace = [r \in Reqs |-> NoTrace]
    /\ handled = 0

\* no normalizer call is under study
NormIdle ==
    /\ nDoc = "cheque"
    /\ nIn = <<>>
    /\ nOut = <<>>
    /\ clock = 0

\* no pure function is under study
FnIdle ==
    /\ fnArg = <<>>
    /\ fnOut = <<>>
    /\ fnDone = FALSE

InitCurrency ==
    /\ fnArg \in AmountInputs
    /\ fnOut = <<>>
    /\ fnDone = FALSE
    /\ NormIdle
    /\ HandlerIdle

FormatCurrency ==
    /\ ~fnDone
    /\ fnOut' = format_indian_currency(Str(fnArg))
    /\ fnDone' = TRUE
    /\ UNCHANGED <<fnArg, normVars, clock, hVars>>

SpecCurrency == InitCurrency /\ [][FormatCurrency]_vars

InitMicr ==
    /\ fnArg \in MicrInputs
    /\ fnOut = <<>>
    /\ fnDone = FALSE
    /\ NormIdle
    /\ HandlerIdle

ParseMicr ==
    /\ ~fnDone
    /\ fnOut' = extract_cheque_number_from_micr(Str(fnArg))
    /\ fnDone' = TRUE
    /\ UNCHANGED <<fnArg, normVars, clock, hVars>>

SpecMicr == InitMicr /\ [][ParseMicr]_vars

(***************************************************************************)
(* The normalizers, each applied to response texts.                        *)
(***************************************************************************)
TextA == <<"a">>
TextWithFence == <<"a">> \o Fence \o <<"b">>
Digits6 == <<"1", "2", "3", "4", "5", "6">>

NameValues == {Absent, Null, Str(TextA), Num(<<"7">>)}
AmountValues ==
    {Absent, Null, Str(<<>>), Str(<<"5", "0", "0", "0", "0", "0", "0">>),
     Num(<<"5", "0", "0", "0", "0", "0", "0">>), Num(<<"0">>)}
MicrValues ==
    {Absent, Null, Str(<<>>), Str(MicrExample), Str(Digits6), Num(<<"7">>)}
PartValues == {Absent, Null, Str(<<>>), Str(TextA), Num(<<"3">>)}
BuildingValues == {Absent, Str(<<>>), Str(<<"9">>), Num(<<"0">>)}
SuppliedValues == {Absent, Str(<<"x">>)}

\* the keys a normalizer reads to compute its derived fields
RawKeys(doc) ==
    CASE doc = "cheque" -> {"micr_code", "amount_numbers"}
      [] doc = "gst" -> {"floor_number", "building_number", "premises_name",
                         "road_street", "locality"}
      [] doc = "passbook" -> {}

\* the keys of the derived fields and of the timestamp
DerivedKeys ==
    {"amount_formatted", "cheque_number", "full_address", "extracted_at"}

\* objects of the service that differ in the fields the normalizer reads
Bases(doc) ==
    CASE doc = "cheque" ->
             { MkPairs(<<"bank_name", "amount_numbers", "micr_code">>,
                       [bank_name |-> b, amount_numbers |-> a, micr_code |-> m]) :
                   b \in NameValues, a \in AmountValues, m \in MicrValues }
      [] doc = "gst" ->
             { MkPairs(<<"legal_name", "floor_number", "building_number",
                         "premises_name", "locality">>,
                       [legal_name |-> b, floor_number |-> f, building_number |-> g,
                        premises_name |-> q, locality |-> l]) :
                   b \in {Null, Str(TextA)}, f \in PartValues,
                   g \in BuildingValues, q \in PartValues,
                   l \in {Absent, Str(<<"b">>)} }
      [] doc = "passbook" ->
             { MkPairs(<<"customer_name", "micr_code", "cif_number">>,
                       [customer_name |-> b, micr_code |-> m, cif_number |-> c]) :
                   b \in NameValues, m \in MicrValues, c \in NameValues }

\* one more object per document type, with other raw fields
AltBase(doc) ==
    CASE doc = "cheque" ->
             << <<(<<"amount_numbers">>), Str(<<"1", "0", "0">>)>> >>
      [] doc = "gst" -> << <<(<<"road_street">>), Str(TextA)>> >>
      [] doc = "passbook" -> << <<(<<"phone">>), Str(Digits6)>> >>

\* the derived fields and the timestamp as the service may supply them
Supplied(doc) ==
    CASE doc = "cheque" ->
             { MkPairs(<<"amount_formatted", "cheque_number", "extracted_at">>,
                       [amount_formatted |-> x, cheque_number |-> y,
                        extracted_at |-> z]) :
                   x \in SuppliedValues, y \in SuppliedValues, z \in SuppliedValues }
      [] doc = "gst" ->
             { MkPairs(<<"full_address", "extracted_at">>,
                       [full_address |-> x, extracted_at |-> z]) :
                   x \in SuppliedValues, z \in SuppliedValues }
      [] doc = "passbook" ->
             { MkPairs(<<"extracted_at">>, [extracted_at |-> z]) :
                   z \in SuppliedValues }

Pending == [res |-> [kind |-> "pending", rec |-> NoRecord], at |-> 0]

\* a response text that is the bare JSON text of an object
Bare(pairs) == [up |-> pairs, payload |-> Dump(pairs), text |-> Dump(pairs),
                wrap |-> "bare", tag |-> <<>>]

InitDerive ==
    /\ FnIdle
    /\ HandlerIdle
    /\ clock = 0
    /\ nDoc \in DocTypes
    /\ \E base \in Bases(nDoc), other \in {"same", "alt"}, sb \in Supplied(nDoc) :
          nIn = <<Bare(base),
                  Bare((IF other = "same" THEN base ELSE AltBase(nDoc)) \o sb)>>
    /\ nOut = <<Pending, Pending>>

\* one call of the normalizer of nDoc, on a readable image, with response text i
Normalize(i) ==
    /\ nOut[i].res.kind = "pending"
    /\ nOut' = [nOut EXCEPT ![i] =
                   [res |-> Normalizer(nDoc, FALSE, Service(nIn[i].text), clock),
                    at |-> clock]]
    /\ UNCHANGED <<fnVars, nDoc, nIn, clock, hVars>>

\* a second passes
Tick ==
    /\ clock < MaxClock
    /\ clock' = clock + 1
    /\ UNCHANGED <<fnVars, normVars, hVars>>

NextNorm == Tick \/ \E i \in DOMAIN nIn : Normalize(i)

SpecDerive == InitDerive /\ [][NextNorm]_vars

JsonTag == <<"j", "s", "o", "n">>
FenceTags == {JsonTag, <<"J", "S", "O", "N">>}

\* JSON payloads: objects, objects with a fence inside a string, and a string
FencePayloads(doc) ==
    LET key == CASE doc = "cheque" -> "bank_name"
                 [] doc = "gst" -> "legal_name"
                 [] doc = "passbook" -> "customer_name"
    IN { [up |-> o, payload |-> Dump(o)] :
             o \in { << <<(<<key>>), Str(TextA)>> >>,
                     << <<(<<key>>), Str(TextWithFence)>> >>,
                     << <<(<<key>>), Str(FenceJson)>> >>,
                     << <<(<<key>>), Null>>,
                        <<(<<"micr_code">>), Str(MicrExample)>> >>,
                     <<>> } }
       \cup { [up |-> <<>>, payload |-> DumpValue(Str(TextA))] }

Wrapped(p, wrap, tag) ==
    [up |-> p.up, payload |-> p.payload, wrap |-> wrap, tag |-> tag,
     text |-> CASE wrap = "tagged" ->
                      Fence \o tag \o <<"\n">> \o p.payload \o <<"\n">> \o Fence
                [] wrap = "untagged" ->
                      Fence \o <<"\n">> \o p.payload \o <<"\n">> \o Fence \o <<"\n">>
                [] wrap = "bare" -> p.payload]

InitFence ==
    /\ FnIdle
    /\ HandlerIdle
    /\ clock = 0
    /\ nDoc \in DocTypes
    /\ \E p \in FencePayloads(nDoc), tag \in FenceTags :
          nIn = <<Wrapped(p, "tagged", tag), Wrapped(p, "untagged", <<>>),
                  Wrapped(p, "bare", <<>>)>>
    /\ nOut = <<Pending, Pending, Pending>>

SpecFence == InitFence /\ [][NextNorm]_vars

(***************************************************************************)
(* The upload handlers process_cheque, process_gst and process_passbook.   *)
(* The three are the same code but for the normalizer they call, so one    *)
(* set of steps, read with the route of the request, models all three.     *)
(* A file name is a sequence of symbols: a stem and its extensions.        *)
(***************************************************************************)
UploadNames ==
    { <<>>,
      <<"a", ".jpg">>,
      <<"a", ".pdf">>,
      <<"a", ".PDF">>,
      <<"a", ".pdf", "_page1.jpg">> }

\* str.lower() of a symbol
Lower(c) == IF c = ".PDF" THEN ".pdf" ELSE c

\* datetime.now().strftime('%Y%m%d_%H%M%S') at second now
StrfTime(now) == <<"D">> \o NatStr(now)

\* os.path.join(UPLOAD_FOLDER, f"{timestamp}_{file.filename}")
UploadPath(now, fname) == <<"uploads", "/">> \o StrfTime(now) \o <<"_">> \o fname

\* f"{filepath}_page1.jpg"
TempImage(path) == path \o <<"_page1.jpg">>

\* filepath.lower().endswith('.pdf')
IsPdf(path) == path # <<>> /\ Lower(path[Len(path)]) = ".pdf"

\* an object of the service with values, and one with nulls
SampleObject(doc) ==
    CASE doc = "cheque" ->
             << <<(<<"bank_name">>), Str(TextA)>>,
                <<(<<"amount_numbers">>), Str(<<"5", "0", "0", "0", "0", "0", "0">>)>>,
                <<(<<"micr_code">>), Str(MicrExample)>> >>
      [] doc = "gst" ->
             << <<(<<"legal_name">>), Str(TextA)>>,
                <<(<<"floor_number">>), Num(<<"3">>)>>,
                <<(<<"locality">>), Str(<<"b">>)>> >>
      [] doc = "passbook" ->
             << <<(<<"customer_name">>), Str(TextA)>>,
                <<(<<"micr_code">>), Str(Digits6)>> >>

NullObject(doc) ==
    CASE doc = "cheque" -> << <<(<<"bank_name">>), Null>> >>
      [] doc = "gst" -> << <<(<<"legal_name">>), Null>> >>
      [] doc = "passbook" -> << <<(<<"customer_name">>), Null>> >>

\* what generate_content and response.text can do for a request
ServiceOutcomes(doc) ==
    { ServiceError,
      Service(Dump(SampleObject(doc))),
      Service(Fence \o JsonTag \o <<"\n">> \o Dump(SampleObject(doc)) \o <<"\n">> \o Fence),
      Service(Dump(NullObject(doc))),
      Service(<<"a", "b">>) }

Envelope(status, success, error, rec) ==
    [status |-> status, success |-> success, error |-> error, data |-> rec]

\* return jsonify(...), status
Reply(r, envelope) ==
    /\ resp' = [resp EXCEPT ![r] = Append(@, envelope)]
    /\ pc' = [pc EXCEPT ![r] = "responded"]

EscapesHandler(r, where) ==
    /\ pc' = [pc EXCEPT ![r] = "unhandled"]
    /\ trace' = [trace EXCEPT ![r].raisedAt = where]

\* an exception raised inside the try block of the handler: control goes to
\* its except clause
Raise(r, where) ==
    /\ pc' = [pc EXCEPT ![r] = "except"]
    /\ trace' = [trace EXCEPT ![r].raisedAt = where]

\* a POST arrives at the route of doc
Receive(r) ==
    /\ pc[r] = "idle"
    /\ handled < MaxRequests
    /\ \E doc \in DocTypes, hasFile \in BOOLEAN, fname \in UploadNames :
          /\ (~hasFile => fname = <<>>)
          /\ req' = [req EXCEPT ![r] =
                        [doc |-> doc, hasFile |-> hasFile, fname |-> fname]]
    /\ pc' = [pc EXCEPT ![r] = "received"]
    /\ filepath' = [filepath EXCEPT ![r] = <<>>]
    /\ data' = [data EXCEPT ![r] = Unset]
    /\ resp' = [resp EXCEPT ![r] = <<>>]
    /\ trace' = [trace EXCEPT ![r] = NoTrace]
    /\ handled' = handled + 1
    /\ UNCHANGED <<fnVars, normVars, clock, files>>

ValidateFilePartOnly(r) ==
    /\ pc[r] = "received"
    /\ IF ~req[r].hasFile
       THEN Reply(r, Envelope(400, FALSE, "No file provided", NoRecord))
       ELSE /\ pc' = [pc EXCEPT ![r] = "validated"]
            /\ UNCHANGED resp
    /\ UNCHANGED <<fnVars, normVars, clock, files, req, filepath, data, trace, handled>>

\* the two checks of the upload
Validate(r) ==
    /\ pc[r] = "received"
    /\ IF ~req[r].hasFile
       THEN Reply(r, Envelope(400, FALSE, "No file provided", NoRecord))
       ELSE IF req[r].fname = <<>>
       THEN Reply(r, Envelope(400, FALSE, "Empty filename", NoRecord))
       ELSE /\ pc' = [pc EXCEPT ![r] = "validated"]
            /\ UNCHANGED resp
    /\ UNCHANGED <<fnVars, normVars, clock, files, req, filepath, data, trace, handled>>

\* filename, filepath and file.save(filepath), which writes the file or raises
Save(r) ==
    /\ pc[r] = "validated"
    /\ LET path == UploadPath(clock, req[r].fname) IN
       /\ filepath' = [filepath EXCEPT ![r] = path]
       /\ \E saved \in BOOLEAN :
             IF saved
             THEN /\ files' = files \cup {path}
                  /\ trace' = [trace EXCEPT ![r].wrote = @ \cup {path}]
                  /\ pc' = [pc EXCEPT ![r] = "saved"]
             ELSE /\ Raise(r, "save")
                  /\ UNCHANGED files
    /\ UNCHANGED <<fnVars, normVars, clock, req, data, resp, handled>>

\* the PDF branch up to images[0].save: convert_from_path returns pages or
\* raises, images[0] raises on an empty list, the save writes the image or raises
Rasterize(r) ==
    /\ pc[r] = "saved"
    /\ IsPdf(filepath[r])
    /\ \E outcome \in {"page", "convert_raises", "no_pages", "save_raises"} :
          IF outcome = "page" /\ filepath[r] \in files
          THEN /\ files' = files \cup {TempImage(filepath[r])}
               /\ trace' = [trace EXCEPT ![r].wrote = @ \cup {TempImage(filepath[r])}]
               /\ pc' = [pc EXCEPT ![r] = "rasterized"]
          ELSE /\ Raise(r, "rasterize")
               /\ UNCHANGED files
    /\ UNCHANGED <<fnVars, normVars, clock, req, filepath, data, resp, handled>>

\* the path the handler gives to its normalizer
ImagePath(r) == IF IsPdf(filepath[r]) THEN TempImage(filepath[r]) ELSE filepath[r]

\* the normalizer has returned result or raised
Normalized(r, result) ==
    IF result.kind = "raised"
    THEN /\ Raise(r, "normalizer")
         /\ UNCHANGED data
    ELSE /\ data' = [data EXCEPT ![r] = result]
         /\ pc' = [pc EXCEPT ![r] = "normalized"]
         /\ trace' = [trace EXCEPT ![r].normCalls = @ + 1]

\* data = extract_..._with_gemini(image_path)
CallNormalizer(r) ==
    /\ \/ pc[r] = "rasterized"
       \/ pc[r] = "saved" /\ ~IsPdf(filepath[r])
    /\ \E openRaises \in BOOLEAN, ai \in ServiceOutcomes(req[r].doc) :
          /\ (ImagePath(r) \notin files => openRaises)
          /\ Normalized(r, Normalizer(req[r].doc, openRaises, ai, clock))
    /\ UNCHANGED <<fnVars, normVars, clock, files, req, filepath, resp, handled>>

\* os.remove(temp_img), which removes the file or raises
RemoveTemp(r) ==
    /\ pc[r] = "normalized"
    /\ IsPdf(filepath[r])
    /\ \E removed \in BOOLEAN :
          IF removed /\ TempImage(filepath[r]) \in files
          THEN /\ files' = files \ {TempImage(filepath[r])}
               /\ pc' = [pc EXCEPT ![r] = "temp_removed"]
               /\ UNCHANGED trace
          ELSE /\ Raise(r, "remove_temp")
               /\ UNCHANGED files
    /\ UNCHANGED <<fnVars, normVars, clock, req, filepath, data, resp, handled>>

\* os.remove(filepath), which removes the file or raises
RemoveUpload(r) ==
    /\ \/ pc[r] = "temp_removed"
       \/ pc[r] = "normalized" /\ ~IsPdf(filepath[r])
    /\ \E removed \in BOOLEAN :
          IF removed /\ filepath[r] \in files
          THEN /\ files' = files \ {filepath[r]}
               /\ pc' = [pc EXCEPT ![r] = "cleaned"]
               /\ UNCHANGED trace
          ELSE /\ Raise(r, "remove_upload")
               /\ UNCHANGED files
    /\ UNCHANGED <<fnVars, normVars, clock, req, filepath, data, resp, handled>>

RespondWithoutRecord(r) ==
    /\ pc[r] = "cleaned"
    /\ IF data[r].kind # "record"
       THEN Reply(r, Envelope(500, FALSE, "Extraction failed", NoRecord))
       ELSE Reply(r, Envelope(200, TRUE, "", NoRecord))
    /\ UNCHANGED <<fnVars, normVars, clock, files, req, filepath, data, trace, handled>>

\* if not data: the 500 of a failed extraction, else the 200 with the record
Respond(r) ==
    /\ pc[r] = "cleaned"
    /\ IF data[r].kind # "record"
       THEN Reply(r, Envelope(500, FALSE, "Extraction failed", NoRecord))
       ELSE Reply(r, Envelope(200, TRUE, "", data[r].rec))
    /\ UNCHANGED <<fnVars, normVars, clock, files, req, filepath, data, trace, handled>>

\* except Exception as e: the 500 of a server error
HandleException(r) ==
    /\ pc[r] = "except"
    /\ Reply(r, Envelope(500, FALSE, "Server error", NoRecord))
    /\ UNCHANGED <<fnVars, normVars, clock, files, req, filepath, data, trace, handled>>

\* the handler has returned its response: the request is over
Return(r) ==
    /\ pc[r] = "responded"
    /\ pc' = [pc EXCEPT ![r] = "idle"]
    /\ req' = [req EXCEPT ![r] = NoRequest]
    /\ filepath' = [filepath EXCEPT ![r] = <<>>]
    /\ data' = [data EXCEPT ![r] = Unset]
    /\ resp' = [resp EXCEPT ![r] = <<>>]
    /\ trace' = [trace EXCEPT ![r] = NoTrace]
    /\ UNCHANGED <<fnVars, normVars, clock, files, handled>>

\* one step of the handler of request r
HandlerStep(r) ==
    \/ Validate(r)
    \/ Save(r)
    \/ Rasterize(r)
    \/ CallNormalizer(r)
    \/ RemoveTemp(r)
    \/ RemoveUpload(r)
    \/ Respond(r)
    \/ HandleException(r)

process_cheque(r) == req[r].doc = "cheque" /\ HandlerStep(r)
process_gst(r) == req[r].doc = "gst" /\ HandlerStep(r)
process_passbook(r) == req[r].doc = "passbook" /\ HandlerStep(r)

\* no other request is being handled
Alone(r) == \A q \in Reqs \ {r} : pc[q] = "idle"

Init ==
    /\ FnIdle
    /\ NormIdle
    /\ HandlerIdle

\* requests are handled one at a time
Next ==
    \/ Tick
    \/ \E r \in Reqs : Alone(r) /\ Receive(r)
    \/ \E r \in Reqs : process_cheque(r)
    \/ \E r \in Reqs : process_gst(r)
    \/ \E r \in Reqs : process_passbook(r)
    \/ \E r \in Reqs : Return(r)

Spec == Init /\ [][Next]_vars

\* the uploads of concurrent requests: a PDF, an image of another name, and an
\* image whose name is the name of the PDF followed by _page1.jpg
ConcurrentNames ==
    { <<"a", ".jpg">>,
      <<"a", ".pdf">>,
      <<"a", ".pdf", "_page1.jpg">> }

\* the server hands a request to its first free thread
FirstFree(r) == r = "r2" => pc["r1"] # "idle"

\* a POST with a named file arrives at the route of doc while another request
\* may be being handled
ReceiveUpload(r) ==
    /\ pc[r] = "idle"
    /\ FirstFree(r)
    /\ handled < MaxRequests
    /\ \E doc \in DocTypes, fname \in ConcurrentNames :
          req' = [req EXCEPT ![r] = [doc |-> doc, hasFile |-> TRUE, fname |-> fname]]
    /\ pc' = [pc EXCEPT ![r] = "received"]
    /\ filepath' = [filepath EXCEPT ![r] = <<>>]
    /\ data' = [data EXCEPT ![r] = Unset]
    /\ resp' = [resp EXCEPT ![r] = <<>>]
    /\ trace' = [trace EXCEPT ![r] = NoTrace]
    /\ handled' = handled + 1
    /\ UNCHANGED <<fnVars, normVars, clock, files>>

\* requests are handled by concurrent threads: a request is received while
\* another is being handled, and the steps of the two handlers interleave
NextConcurrent ==
    \/ Tick
    \/ \E r \in Reqs : ReceiveUpload(r)
    \/ \E r \in Reqs : process_cheque(r)
    \/ \E r \in Reqs : process_gst(r)
    \/ \E r \in Reqs : process_passbook(r)
    \/ \E r \in Reqs : Return(r)

SpecConcurrent == Init /\ [][NextConcurrent]_vars

(***************************************************************************)
(* Claims about the currency formatter.                                    *)
(***************************************************************************)
RECURSIVE PairsFromRight(_)
\* a digit string cut in pairs from the right, the pairs separated by commas
PairsFromRight(d) ==
    IF Len(d) <= 2 THEN d
    ELSE PairsFromRight(SubSeq(d, 1, Len(d) - 2))
             \o <<",">> \o SubSeq(d, Len(d) - 1, Len(d))

\* the Indian grouping of a digit string: the last three digits are one group,
\* the digits before them are grouped in pairs from the right
IndianGrouping(d) ==
    IF Len(d) <= 3 THEN d
    ELSE PairsFromRight(SubSeq(d, 1, Len(d) - 3))
             \o <<",">> \o SubSeq(d, Len(d) - 2, Len(d))

\* a non-empty digit string without its leading zeros; one digit always stays
Numeral(d) ==
    LET first == CHOOSE i \in 1..Len(d) :
                     /\ (d[i] # "0" \/ i = Len(d))
                     /\ \A j \in 1..(i - 1) : d[j] = "0"
    IN SubSeq(d, first, Len(d))

Commas(s) == Cardinality({i \in DOMAIN s : s[i] = ","})

FiftyLakh == <<"5", "0", "0", "0", "0", "0", "0">>
FiftyLakhFormatted ==
    <<Rupee, " ", "5", "0", ",", "0", "0", ",", "0", "0", "0", "/", "-">>

\* C8 as stated: format_indian_currency returns "" for an input with no digit,
\* and otherwise Rupee, a space, the Indian grouping of the digits left after
\* stripping every non-digit character, and "/-".
C8_AsStated ==
    fnDone =>
        LET d == SelectSeq(fnArg, IsDigit) IN
        fnOut = IF d = <<>> THEN <<>>
                ELSE <<Rupee, " ">> \o IndianGrouping(d) \o <<"/", "-">>

\* C8 amended: format_indian_currency returns "" for an input with no digit,
\* and otherwise Rupee, a space, G and "/-", where G is the Indian grouping of
\* the decimal numeral of the stripped digits (the digits without their leading
\* zeros): no comma for a numeral of 1 to 3 digits, one comma for 4 or 5 digits;
\* 5000000 gives "Rs 50,00,000/-" and 100 gives "Rs 100/-".
C8_IndianGrouping ==
    fnDone =>
        LET d == SelectSeq(fnArg, IsDigit) IN
        /\ d = <<>> => fnOut = <<>>
        /\ d # <<>> =>
              LET n == Numeral(d) IN
              /\ fnOut = <<Rupee, " ">> \o IndianGrouping(n) \o <<"/", "-">>
              /\ Len(n) <= 3 => Commas(fnOut) = 0
              /\ Len(n) \in {4, 5} => Commas(fnOut) = 1
        /\ fnArg = FiftyLakh => fnOut = FiftyLakhFormatted
        /\ fnArg = <<"1", "0", "0">> => fnOut = <<Rupee, " ", "1", "0", "0", "/", "-">>

\* C8 witness: the formatter has grouped a seven-digit amount into three groups
C8_Witness ==
    /\ fnDone
    /\ fnArg = FiftyLakh
    /\ fnOut = FiftyLakhFormatted

(***************************************************************************)
(* Claims about the MICR parser.                                           *)
(***************************************************************************)
\* s[b..c] is a digit run enclosed between two boundary glyphs: a glyph,
\* optional whitespace, the digits, optional whitespace, a glyph
Enclosed(s, b, c) ==
    /\ b <= c
    /\ \A k \in b..c : IsDigit(s[k])
    /\ \E a \in 1..(b - 1) :
          /\ IsGlyph(s[a])
          /\ \A k \in (a + 1)..(b - 1) : IsSpace(s[k])
    /\ \E e \in (c + 1)..Len(s) :
          /\ IsGlyph(s[e])
          /\ \A k \in (c + 1)..(e - 1) : IsSpace(s[k])

EnclosedRuns(s) == {r \in (DOMAIN s) \X (DOMAIN s) : Enclosed(s, r[1], r[2])}

\* position i starts a 6-digit token with a word boundary on each side
Standalone6(s, i) ==
    /\ i + 5 <= Len(s)
    /\ \A k \in i..(i + 5) : IsDigit(s[k])
    /\ i > 1 => ~IsWord(s[i - 1])
    /\ i + 5 < Len(s) => ~IsWord(s[i + 6])

Tokens6(s) == {i \in DOMAIN s : Standalone6(s, i)}

\* C9: extract_cheque_number_from_micr returns the leftmost digit run enclosed
\* between two boundary glyphs (either glyph on either side, whitespace allowed
\* between glyph and digits) when there is one; otherwise the first standalone
\* 6-digit token bounded by word boundaries; otherwise "".  The MICR line of
\* the example gives "343242", a glyph-free line with the lone token "123456"
\* gives "123456", and a line without digits gives "".
C9_ChequeNumber ==
    fnDone =>
        LET runs == EnclosedRuns(fnArg)
            toks == Tokens6(fnArg)
        IN
        /\ runs # {} =>
              \E r \in runs :
                  /\ \A q \in runs : r[1] <= q[1]
                  /\ fnOut = SubSeq(fnArg, r[1], r[2])
        /\ (runs = {} /\ toks # {}) =>
              \E i \in toks :
                  /\ \A j \in toks : i <= j
                  /\ fnOut = SubSeq(fnArg, i, i + 5)
        /\ (runs = {} /\ toks = {}) => fnOut = <<>>
        /\ fnArg = MicrExample => fnOut = <<"3", "4", "3", "2", "4", "2">>
        /\ fnArg = <<"a", "b", " ", "1", "2", "3", "4", "5", "6", " ", "b">>
              => fnOut = <<"1", "2", "3", "4", "5", "6">>
        /\ Range(fnArg) \cap DigitChars = {} => fnOut = <<>>

\* C9 witness: the parser has returned the first of several enclosed segments
C9_Witness ==
    /\ fnDone
    /\ fnArg = MicrExample
    /\ Cardinality(EnclosedRuns(fnArg)) > 1
    /\ fnOut = <<"3", "4", "3", "2", "4", "2">>

(***************************************************************************)
(* Claims about the normalizers.                                           *)
(***************************************************************************)
Returned(i) == nOut[i].res.kind = "record"
Finished(i) == nOut[i].res.kind # "pending"
Rec(i) == nOut[i].res.rec

\* the fields a normalizer copies from the object of the service
CopiedFields(doc) == FieldsOf(doc) \ (DerivedKeys \cup {"document_type"})

\* C6 as stated: every record a normalizer returns has every expected field of
\* its variant, every field value is a string and never null, and every
\* expected field that the object of the service lacks is the empty string.
C6_AsStated ==
    \A i \in DOMAIN nIn :
        Returned(i) =>
            /\ DOMAIN Rec(i) = FieldsOf(nDoc)
            /\ \A f \in FieldsOf(nDoc) : Rec(i)[f].t = "str"
            /\ \A f \in CopiedFields(nDoc) :
                  ~Has(nIn[i].up, f) => Rec(i)[f] = Str(<<>>)

AgreeOn(p, q, keys) == \A k \in keys : GetOrNone(p, k) = GetOrNone(q, k) /\ Has(p, k) = Has(q, k)

\* C10: two objects of the service that agree on the raw fields (micr_code and
\* amount_numbers for a cheque; the five address parts for a GST certificate)
\* and differ in supplied amount_formatted, cheque_number, full_address or
\* extracted_at give records with the same amount_formatted, cheque_number and
\* full_address; cheque_number is extract_cheque_number_from_micr(micr_code),
\* amount_formatted is format_indian_currency(amount_numbers), and extracted_at
\* is the time of the call, never the supplied value.
C10_DerivedFromRaw ==
    /\ (Returned(1) /\ Returned(2) /\ AgreeOn(nIn[1].up, nIn[2].up, RawKeys(nDoc))) =>
           \A f \in (DerivedKeys \ {"extracted_at"}) \cap FieldsOf(nDoc) :
               Rec(1)[f] = Rec(2)[f]
    /\ \A i \in DOMAIN nIn :
           Returned(i) =>
               /\ Rec(i)["extracted_at"] = Str(IsoFormat(nOut[i].at))
               /\ nDoc = "cheque" =>
                      /\ Rec(i)["cheque_number"] =
                             Str(extract_cheque_number_from_micr(
                                     Get(nIn[i].up, "micr_code")))
                      /\ Rec(i)["amount_formatted"] =
                             Str(format_indian_currency(
                                     Get(nIn[i].up, "amount_numbers")))

\* C10 witness: a cheque record whose object supplied its own amount_formatted,
\* cheque_number and extracted_at, next to the record of the same raw fields
C10_Witness ==
    /\ nDoc = "cheque"
    /\ Returned(1) /\ Returned(2)
    /\ AgreeOn(nIn[1].up, nIn[2].up, RawKeys(nDoc))
    /\ Has(nIn[2].up, "amount_formatted") /\ ~Has(nIn[1].up, "amount_formatted")
    /\ Has(nIn[2].up, "cheque_number") /\ Has(nIn[2].up, "extracted_at")
    /\ Rec(2)["amount_formatted"] = Str(FiftyLakhFormatted)
    /\ Rec(2)["cheque_number"] = Str(<<"3", "4", "3", "2", "4", "2">>)
    /\ nOut[1].at # nOut[2].at

\* two results are the same record, or the same failure, ignoring extracted_at
SameResult(a, b) ==
    /\ a.kind = b.kind
    /\ DOMAIN a.rec = DOMAIN b.rec
    /\ \A f \in DOMAIN a.rec \ {"extracted_at"} : a.rec[f] = b.rec[f]

Contains(s, sub) == FindSub(s, sub, 1) # 0

\* C7 as stated: for any JSON payload, the text fenced with a language tag, the
\* text fenced without one and the bare text give the same record.
C7_AsStated ==
    (Len(nIn) = 3 /\ \A i \in DOMAIN nIn : Finished(i)) =>
        /\ SameResult(nOut[1].res, nOut[3].res)
        /\ SameResult(nOut[2].res, nOut[3].res)

\* C7 amended: for any JSON payload that does not contain the fence marker, the
\* text fenced with the tag json, the text fenced without a tag and the bare
\* text give the same record (ignoring extracted_at); the unwrap of a fenced
\* text is the text between the opening marker (with its json tag) and the
\* next fence marker, stripped of the whitespace around it.
C7_FenceUnwrap ==
    \A i \in DOMAIN nIn :
        (Len(nIn) = 3 /\ ~Contains(nIn[i].payload, Fence)
            /\ (nIn[i].wrap = "tagged" => nIn[i].tag = JsonTag)) =>
            /\ Unwrap(nIn[i].text) = PyStrip(nIn[i].payload)
            /\ (Finished(i) /\ Finished(3)) => SameResult(nOut[i].res, nOut[3].res)

\* C7 witness: the tagged, the untagged and the bare text of one object have
\* all been normalized to a record
C7_Witness ==
    /\ Len(nIn) = 3
    /\ nIn[1].tag = JsonTag
    /\ ~Contains(nIn[1].payload, Fence)
    /\ \A i \in DOMAIN nIn : Returned(i)
    /\ Rec(1)["micr_code"] = Str(MicrExample)

AddressKeys ==
    <<"floor_number", "building_number", "premises_name", "road_street", "locality">>

\* the label the address carries before the value of a sub-field
AddressLabel(key) ==
    CASE key = "floor_number" -> <<"F", "l", "o", "o", "r", ":", " ">>
      [] key = "building_number" -> <<"B", "u", "i", "l", "d", "i", "n", "g", ":", " ">>
      [] OTHER -> <<>>

RECURSIVE PresentParts(_, _, _)
\* the sub-fields of a record from the i-th on that are not empty, in order,
\* each as a text, with its label or without
PresentParts(rec, i, labelled) ==
    IF i > Len(AddressKeys) THEN <<>>
    ELSE (IF Truthy(rec[AddressKeys[i]])
          THEN << (IF labelled THEN AddressLabel(AddressKeys[i]) ELSE <<>>)
                      \o PyStr(rec[AddressKeys[i]]) >>
          ELSE <<>>)
         \o PresentParts(rec, i + 1, labelled)

RECURSIVE CommaJoined(_)
CommaJoined(parts) ==
    IF parts = <<>> THEN <<>>
    ELSE IF Len(parts) = 1 THEN Head(parts)
    ELSE Head(parts) \o <<",", " ">> \o CommaJoined(Tail(parts))

\* C11 as stated: in every GST record, full_address is the values of the
\* non-empty sub-fields floor_number, building_number, premises_name,
\* road_street and locality, in that order, joined with ", ", and "" when all
\* five are empty or absent.
C11_AsStated ==
    \A i \in DOMAIN nIn :
        (nDoc = "gst" /\ Returned(i)) =>
            Rec(i)["full_address"] = Str(CommaJoined(PresentParts(Rec(i), 1, FALSE)))

\* a sub-field that is not empty and is no string; the join of the address
\* does not take it
Unjoinable(up) ==
    \E k \in {"premises_name", "road_street", "locality"} :
        Truthy(GetOrNone(up, k)) /\ GetOrNone(up, k).t # "str"

\* C11 amended: in every GST record, full_address is the texts of the
\* non-empty sub-fields floor_number, building_number, premises_name,
\* road_street and locality, in that order, joined with ", ", where the text
\* of floor_number is "Floor: " followed by its value and the text of
\* building_number is "Building: " followed by its value; it is "" when all
\* five are empty or absent; and the normalizer returns no record at all when
\* a non-empty premises_name, road_street or locality is not a string.
C11_LabelledAddress ==
    \A i \in DOMAIN nIn :
        nDoc = "gst" =>
            /\ Returned(i) =>
                   /\ Rec(i)["full_address"] =
                          Str(CommaJoined(PresentParts(Rec(i), 1, TRUE)))
                   /\ (\A j \in DOMAIN AddressKeys : ~Truthy(Rec(i)[AddressKeys[j]]))
                          => Rec(i)["full_address"] = Str(<<>>)
            /\ Finished(i) => (Returned(i) <=> ~Unjoinable(nIn[i].up))

\* C11 witness: a GST record with a floor, a building and a locality and an
\* empty premises_name between them, whose address carries the two labels
C11_Witness ==
    /\ nDoc = "gst"
    /\ Returned(1)
    /\ Rec(1)["floor_number"] = Num(<<"3">>)
    /\ Rec(1)["building_number"] = Str(<<"9">>)
    /\ Rec(1)["premises_name"] = Str(<<>>)
    /\ Rec(1)["locality"] = Str(<<"b">>)
    /\ Rec(1)["full_address"] =
           Str(<<"F", "l", "o", "o", "r", ":", " ", "3", ",", " ",
                 "B", "u", "i", "l", "d", "i", "n", "g", ":", " ", "9", ",", " ", "b">>)

(***************************************************************************)
(* Claims about the upload handlers.                                       *)
(***************************************************************************)
Responded(r) == pc[r] = "responded"
Uploaded(r) == filepath[r] \in trace[r].wrote

ServerError == Envelope(500, FALSE, "Server error", NoRecord)
ExtractionFailed == Envelope(500, FALSE, "Extraction failed", NoRecord)

\* C1 as stated: on every path on which the upload was saved, when the
\* response is returned the saved upload and, for a PDF, the rasterized page
\* image no longer exist in the upload folder.
C1_AsStated ==
    \A r \in Reqs :
        (Responded(r) /\ Uploaded(r)) =>
            /\ filepath[r] \notin files
            /\ IsPdf(filepath[r]) => TempImage(filepath[r]) \notin files

\* C2: a request without a file part is answered 400, success false, "No file
\* provided"; a request whose file part has the filename "" is answered 400,
\* success false, "Empty filename"; in both cases the handler goes from the
\* validation straight to the response: it sets no path, writes nothing to the
\* upload folder and never calls the normalizer.
C2_ValidationShortCircuit ==
    \A r \in Reqs :
        (req[r].doc \in DocTypes /\ (~req[r].hasFile \/ req[r].fname = <<>>)) =>
            /\ pc[r] \in {"received", "responded"}
            /\ filepath[r] = <<>>
            /\ trace[r] = NoTrace
            /\ data[r] = Unset
            /\ Responded(r) =>
                  resp[r] = << Envelope(400, FALSE,
                                        IF ~req[r].hasFile THEN "No file provided"
                                        ELSE "Empty filename",
                                        NoRecord) >>

\* C2 witness: an upload with the filename "" has been answered "Empty
\* filename" while a file of an earlier request is still in the folder
C2_Witness ==
    \E r \in Reqs :
        /\ Responded(r)
        /\ req[r].hasFile /\ req[r].fname = <<>>
        /\ resp[r][1].status = 400 /\ resp[r][1].error = "Empty filename"
        /\ files # {}

\* C3 as stated: whenever the normalizer returned a record, the response is
\* 200 with success true and that record as data; no step after the normalizer
\* turns it into a failure.
C3_AsStated ==
    \A r \in Reqs :
        (Responded(r) /\ data[r].kind = "record") =>
            resp[r] = << Envelope(200, TRUE, "", data[r].rec) >>

\* C3 amended: whenever the normalizer returned a record and neither removal
\* after it raises, the response is 200 with success true and that record as
\* data; when os.remove of the rasterized image or of the upload raises, the
\* response is the 500 "Server error" envelope instead.
C3_RecordIsReturned ==
    \A r \in Reqs :
        (Responded(r) /\ data[r].kind = "record") =>
            IF trace[r].raisedAt = "nowhere"
            THEN resp[r] = << Envelope(200, TRUE, "", data[r].rec) >>
            ELSE /\ trace[r].raisedAt \in {"remove_temp", "remove_upload"}
                 /\ resp[r] = << ServerError >>

\* C3 witness: a PDF upload whose normalizer returned a record has been
\* answered 200 with that record after both removals
C3_Witness ==
    \E r \in Reqs :
        /\ Responded(r)
        /\ IsPdf(filepath[r])
        /\ data[r].kind = "record"
        /\ trace[r].raisedAt = "nowhere"
        /\ resp[r][1].status = 200
        /\ resp[r][1].data = data[r].rec

\* C4 as stated: no exception leaves a normalizer (image load, call of the
\* service, unwrapping and JSON decoding are all caught in it and it returns
\* None), and the handler of a failed normalization answers 500 "Extraction
\* failed", never "Server error".
C4_AsStated ==
    \A r \in Reqs :
        /\ trace[r].raisedAt # "normalizer"
        /\ (Responded(r) /\ data[r].kind = "none") => resp[r] = << ExtractionFailed >>

\* C5: a request ends in exactly one response envelope, of status 200, 400 or
\* 500; no exception of validation, save, rasterization, normalization or
\* cleanup escapes the handler; success is true exactly when the status is 200
\* and a data record is present; and the handler is never stuck before it.
C5_OneEnvelope ==
    \A r \in Reqs :
        /\ pc[r] # "unhandled"
        /\ pc[r] \notin {"idle", "responded"} =>
              /\ resp[r] = <<>>
              /\ ENABLED HandlerStep(r)
        /\ Responded(r) =>
              /\ Len(resp[r]) = 1
              /\ resp[r][1].status \in {200, 400, 500}
              /\ resp[r][1].success <=>
                     (resp[r][1].status = 200 /\ resp[r][1].data # NoRecord)
              /\ resp[r][1].status = 200 => resp[r][1].success

\* C5 witness: an exception of the cleanup has been answered with the 500
\* "Server error" envelope
C5_Witness ==
    \E r \in Reqs :
        /\ Responded(r)
        /\ trace[r].raisedAt = "remove_upload"
        /\ resp[r] = << ServerError >>

(***************************************************************************)
(* Claims about concurrent requests.                                       *)
(***************************************************************************)
\* the request has been given its path in the upload folder
InFlight(r) == filepath[r] # <<>>

\* the temporary paths of a request: its saved upload and, for a PDF, the
\* rasterized page image
Paths(r) ==
    IF ~InFlight(r) THEN {}
    ELSE {filepath[r]}
             \cup (IF IsPdf(filepath[r]) THEN {TempImage(filepath[r])} ELSE {})

\* the two uploads were given their paths in the same second
SameSecond(r, q) ==
    \E now \in 0..MaxClock :
        /\ filepath[r] = UploadPath(now, req[r].fname)
        /\ filepath[q] = UploadPath(now, req[q].fname)

\* the files a request has written and has not yet removed itself
Expects(r) ==
    (IF pc[r] \in {"saved", "rasterized", "normalized", "temp_removed"}
     THEN {filepath[r]} ELSE {})
    \cup (IF pc[r] \in {"rasterized", "normalized"} /\ IsPdf(filepath[r])
          THEN {TempImage(filepath[r])} ELSE {})

\* no other request has removed a file of the request
Undisturbed(r) == Expects(r) \subseteq files

\* C12 as stated: two concurrent requests whose uploads have different
\* original filenames, or were saved in different seconds, use disjoint
\* temporary paths (saved upload and rasterized page image), and neither
\* reads, overwrites or deletes a temporary file of the other.
C12_AsStated ==
    \A r, q \in Reqs :
        (r # q /\ InFlight(r) /\ InFlight(q)
            /\ (req[r].fname # req[q].fname \/ ~SameSecond(r, q))) =>
            /\ Paths(r) \cap Paths(q) = {}
            /\ Undisturbed(r)

====
